---- MODULE Spec2Model ----
(***************************************************************************)
(* A model of the parameter-server container (src/src/box/container.h):    *)
(* the logical clock, the two future pools, the pull aggregator, the       *)
(* receive queue, and the Push / Pull / Wait / Accept / Notify operations  *)
(* run by application threads and by the postoffice's delivery threads.    *)
(*                                                                         *)
(* container.h holds the bodies of IncrClock, SetMaxDelay, Accept, Notify  *)
(* and AggregateSuccess.  The bodies of Push, Pull, Wait, ReadAll and      *)
(* Reply (container.cc), of Aggregator (system/aggregator.h) and of        *)
(* FuturePool are not among the sources; they are modelled from the        *)
(* specification's sections 4.2 to 4.5 and from the declarations' comments.*)
(***************************************************************************)
EXTENDS Integers, Sequences, FiniteSets, TLC

\* ------------------------------------------------------------------ bounds
\* The clock is capped: no operation that increments it is enabled beyond.
MaxTime == 2
\* The receive queue of a worker is never read; Accept is disabled beyond.
MaxMails == 2

\* --------------------------------------------------------------- constants
kCurTime == -1
kInfDelay == 2147483647

AppThreads == {"a1", "a2"}
DeliveryThreads == {"d1", "d2"}
\* The universe of server nodes a node group is drawn from.
Nodes == {"s1", "s2"}
\* Times a mail can carry: 0 was never issued (the clock starts at 0 and
\* IncrClock returns the incremented value).
Times == 0..(MaxTime + 1)

PUSH == "PUSH"
PULL == "PULL"
REPLY == "REPLY"

VARIABLES
  cur_time,         \* Container::cur_time_
  issued,           \* history: the values IncrClock returned, in issue order
  max_push_delay,   \* Container::max_push_delay_
  max_pull_delay,   \* Container::max_pull_delay_
  push_pool,        \* Container::push_pool_ : time -> absent|pending|satisfied
  pull_pool,        \* Container::pull_pool_
  pull_aggregator,  \* Container::pull_aggregator_ : time -> entry
  node_group,       \* postmaster_->GetNodeGroup(name())
  is_server,        \* my_node().is_server()
  mails_received,   \* Container::mails_received_
  outbox,           \* envelopes handed to the transport, awaiting Notify
  sent,             \* times of the requests the transport took
  replies,          \* REPLY envelopes emitted by Reply (server side)
  errors,           \* errors raised so far
  a_pc, a_time, a_ret,   \* application threads: position, time in hand, result
  a_arg,                 \* the argument of the thread's current or last Wait,
                         \* or the pull budget SetMaxDelay has still to write
  d_pc, d_mail,          \* delivery threads: position, mail in hand
  issue_group,      \* history: the node group at the moment a time was issued
  callback_of,      \* the times whose request carries SyncOpts::callback
  invoked,          \* time -> how often its callback has been invoked (no
                    \* operation of container.h invokes a callback)
  handled,          \* server side: the requests given to the handle, in order
  lost,             \* the replies (time, node) the transport never delivers
  kv_online,        \* a KVStore of Type ONLINE: values, handle calls, requests
  kv_batch          \* a KVStore of Type BATCH

vars == <<cur_time, issued, max_push_delay, max_pull_delay, push_pool,
          pull_pool, pull_aggregator, node_group, is_server, mails_received,
          outbox, sent, replies, errors, a_pc, a_time, a_ret, a_arg,
          d_pc, d_mail, issue_group, callback_of, invoked,
          handled, lost, kv_online, kv_batch>>

NoEntry == [present |-> FALSE, acked |-> {}]
NoMail == [type |-> {}, time |-> 0, sender |-> "none"]
\* no Wait called since the thread's last other call
NoArg == kCurTime - 1

\* ------------------------------------------------------------ the clock
\* IncrClock: ScopeLock lock(&mutex_); return ++cur_time_;
\* The mutex makes the read, the increment and the return one atomic step.
ClockAfterIncrStuck(c) == IF c >= 1 THEN c ELSE c + 1
ClockAfterIncr(c) == c + 1

IssuedTimes == {issued[i] : i \in 1..Len(issued)}

\* ------------------------------------------------------------ FuturePool
\* create(time): registers a new pending cell.
PoolCreate(pool, t) == [pool EXCEPT ![t] = "pending"]
\* set(time, result): marks a registered cell satisfied; a cell already
\* satisfied stays so.  On an unregistered time it fails (PoolSetFails)
\* and creates nothing.
PoolSetResets(pool, t) ==
  IF pool[t] = "absent" THEN pool
  ELSE [pool EXCEPT ![t] = IF pool[t] = "pending" THEN "satisfied" ELSE "pending"]
PoolSet(pool, t) ==
  IF pool[t] = "pending" THEN [pool EXCEPT ![t] = "satisfied"] ELSE pool
PoolSetFails(pool, t) == pool[t] = "absent"
\* the cell is destroyed (the request was never sent)
PoolRemove(pool, t) == [pool EXCEPT ![t] = "absent"]

\* ------------------------------------------------------------ Aggregator
\* A pending set is created when the request is issued.
AggCreate(agg, t) == [agg EXCEPT ![t] = [present |-> TRUE, acked |-> {}]]
\* insert: records the reply's sender against the pending set of its time;
\* with no pending set the reply is dropped.
AggInsertCreates(agg, mail) ==
  [agg EXCEPT ![mail.time] =
      [present |-> TRUE, acked |-> agg[mail.time].acked \cup {mail.sender}]]
AggInsert(agg, mail) ==
  IF agg[mail.time].present
  THEN [agg EXCEPT ![mail.time].acked = @ \cup {mail.sender}]
  ELSE agg
\* success: every member of the node group has acknowledged the time.
AggSuccessAny(agg, t, group) ==
  agg[t].present /\ (\E n \in group : n \in agg[t].acked)
AggSuccess(agg, t, group) ==
  agg[t].present /\ (\A n \in group : n \in agg[t].acked)
\* delete: releases the tracking state of the time; idempotent.
AggDelete(agg, t) == [agg EXCEPT ![t] = NoEntry]

\* ----------------------------------------------------- ConsistencyWindow
\* SetMaxDelay: max_push_delay_ = std::max(push, 0), the same for pull.
ClampDelayRaw(d) == d
ClampDelay(d) == IF d > 0 THEN d ELSE 0

\* "is (new_time - oldest_unacknowledged_time) within budget?": the call
\* blocks while an earlier pending cell lies more than budget ticks back.
WindowBlockedOffByOne(pool, t, budget) ==
  \E u \in Times : u < t /\ pool[u] = "pending" /\ t - u - 1 > budget
WindowBlocked(pool, t, budget) ==
  \E u \in Times : u < t /\ pool[u] = "pending" /\ t - u > budget

\* --------------------------------------------------------------- Wait
\* "wait until all pull and push requests <= time are success"
WaitDoneOnlyThis(t) ==
  push_pool[t] # "pending" /\ pull_pool[t] # "pending"
WaitDone(t) ==
  \A u \in Times : u <= t => (push_pool[u] # "pending" /\ pull_pool[u] # "pending")
\* "the default is cur_time"
WaitTarget(t) == IF t = kCurTime THEN cur_time ELSE t
\* a time this container's clock never handed out
NeverIssuedAboveClock(t) == t > cur_time
NeverIssued(t) == t \notin IssuedTimes

\* ------------------------------------------------------------ keys, values
\* the key lists a Push request is called with
KeyLists == {<<3>>, <<1, 3>>, <<2, 3>>, <<1, 2, 3>>}
\* ------------------------------------------------------------- KVStore
ONLINE == "ONLINE"
BATCH == "BATCH"
\* KVStore(int id = 0, Type type = ONLINE) { }: the constructor keeps neither
\* the id nor the type; the class has no member but handle_.
\* vals: the key/value state stored; calls: the invocations of the handle;
\* reqs: history, the Push requests that reached the store's node.
KVStore(type) == [vals |-> <<>>, calls |-> 0, reqs |-> <<>>]
\* void Run() { }
Run(store) == store

\* the values a worker pushes for a key
PushValues == {1, 2}

\* ----------------------------------------------------------------- Init
\* After construction and Init(): the clock at 0, both pools and the
\* aggregator empty, the budgets unbounded, the receive queue empty.
InitContainer ==
  /\ cur_time = 0
  /\ issued = <<>>
  /\ max_push_delay = kInfDelay
  /\ max_pull_delay = kInfDelay
  /\ push_pool = [t \in Times |-> "absent"]
  /\ pull_pool = [t \in Times |-> "absent"]
  /\ pull_aggregator = [t \in Times |-> NoEntry]
  /\ node_group \in {{"s1"}, {"s1", "s2"}}
  /\ mails_received = <<>>
  /\ outbox = {}
  /\ sent = {}
  /\ replies = <<>>
  /\ errors = {}
  /\ a_pc = [a \in AppThreads |-> "idle"]
  /\ a_time = [a \in AppThreads |-> 0]
  /\ a_ret = [a \in AppThreads |-> "none"]
  /\ a_arg = [a \in AppThreads |-> NoArg]
  /\ d_pc = [d \in DeliveryThreads |-> "idle"]
  /\ d_mail = [d \in DeliveryThreads |-> NoMail]
  /\ issue_group = [t \in Times |-> {}]
  /\ invoked = [t \in Times |-> 0]
  /\ handled = <<>>
  /\ kv_online = KVStore(ONLINE)
  /\ kv_batch = KVStore(BATCH)

\* requests issued with default SyncOpts, a transport that
\* delivers every reply
NoOptions ==
  /\ callback_of = {}
  /\ lost = {}

Init == NoOptions /\ InitContainer /\ is_server = FALSE

\* everything a step of an application thread's Push/Pull/Wait leaves alone
\* the options of the requests, the transport's losses and the KVStores
OptionsFrame ==
  UNCHANGED <<callback_of, lost, kv_online, kv_batch>>
AppFrameButHistory ==
  /\ UNCHANGED <<node_group, is_server, mails_received, replies, errors,
                 d_pc, d_mail, invoked, handled>>
  /\ OptionsFrame
AppFrame ==
  /\ AppFrameButHistory
  /\ UNCHANGED issue_group
DeliveryFrameButCalls ==
  /\ UNCHANGED <<cur_time, issued, max_push_delay, max_pull_delay, node_group,
                 is_server, sent, a_pc, a_time, a_ret, a_arg,
                 issue_group>>
  /\ OptionsFrame
DeliveryFrame ==
  /\ DeliveryFrameButCalls
  /\ UNCHANGED <<invoked, handled>>

\* ---------------------------------------------------------- SetMaxDelay
DelayInputs == {-1, 0, 1, kInfDelay}

\* void SetMaxDelay(int push, int pull), callable at any time and without a
\* lock: the two members are written one after the other.
\* max_push_delay_ = std::max(push, 0);
SetMaxDelay(a, push, pull) ==
  /\ a_pc[a] = "idle"
  /\ max_push_delay' = ClampDelay(push)
  /\ a_pc' = [a_pc EXCEPT ![a] = "set_pull"]
  /\ a_arg' = [a_arg EXCEPT ![a] = pull]
  /\ UNCHANGED <<cur_time, issued, max_pull_delay, push_pool, pull_pool,
                 pull_aggregator, outbox, sent, a_time, a_ret>>
  /\ AppFrame

\* max_pull_delay_ = std::max(pull, 0);
SetMaxDelayPull(a) ==
  /\ a_pc[a] = "set_pull"
  /\ max_pull_delay' = ClampDelay(a_arg[a])
  /\ a_pc' = [a_pc EXCEPT ![a] = "idle"]
  /\ a_arg' = [a_arg EXCEPT ![a] = NoArg]
  /\ UNCHANGED <<cur_time, issued, max_push_delay, push_pool, pull_pool,
                 pull_aggregator, outbox, sent, a_time, a_ret>>
  /\ AppFrame

\* void SetMaxPushDelay(int delay) { max_push_delay_ = std::max(delay, 0); }
SetMaxPushDelay(a, delay) ==
  /\ a_pc[a] = "idle"
  /\ max_push_delay' = ClampDelay(delay)
  /\ a_arg' = [a_arg EXCEPT ![a] = NoArg]
  /\ UNCHANGED <<cur_time, issued, max_pull_delay, push_pool, pull_pool,
                 pull_aggregator, outbox, sent, a_pc, a_time, a_ret>>
  /\ AppFrame

\* void SetMaxPullDelay(int delay) { max_pull_delay_ = std::max(delay, 0); }
SetMaxPullDelay(a, delay) ==
  /\ a_pc[a] = "idle"
  /\ max_pull_delay' = ClampDelay(delay)
  /\ a_arg' = [a_arg EXCEPT ![a] = NoArg]
  /\ UNCHANGED <<cur_time, issued, max_push_delay, push_pool, pull_pool,
                 pull_aggregator, outbox, sent, a_pc, a_time, a_ret>>
  /\ AppFrame

\* ------------------------------------------------------------ IncrClock
\* int IncrClock() called by the application on its own.
IncrClock(a) ==
  /\ a_pc[a] = "idle"
  /\ cur_time < MaxTime
  /\ cur_time' = ClockAfterIncr(cur_time)
  /\ issued' = Append(issued, cur_time')
  /\ UNCHANGED <<max_push_delay, max_pull_delay, push_pool, pull_pool,
                 pull_aggregator, outbox, sent, a_pc, a_time, a_ret>>
  /\ a_arg' = [a_arg EXCEPT ![a] = NoArg]
  /\ AppFrame

\* ----------------------------------------------------------------- Push
\* Push assigns a time (IncrClock) and registers the request: a cell of the
\* push pool (set by Notify once the mail is sent), and on the reply side a
\* pending set in the aggregator with a cell of the pull pool (set by Accept).
PushIssueWithin(a, bound) ==
  /\ a_pc[a] = "idle"
  /\ cur_time < bound
  /\ cur_time' = ClockAfterIncr(cur_time)
  /\ issued' = Append(issued, cur_time')
  /\ a_time' = [a_time EXCEPT ![a] = cur_time']
  /\ a_ret' = [a_ret EXCEPT ![a] = "none"]
  /\ push_pool' = PoolCreate(push_pool, cur_time')
  /\ pull_pool' = PoolCreate(pull_pool, cur_time')
  /\ pull_aggregator' = AggCreate(pull_aggregator, cur_time')
  /\ a_pc' = [a_pc EXCEPT ![a] = "push_window"]
  /\ UNCHANGED <<max_push_delay, max_pull_delay, outbox, sent>>
  /\ a_arg' = [a_arg EXCEPT ![a] = NoArg]
  /\ issue_group' = [issue_group EXCEPT ![cur_time'] = node_group]
  /\ AppFrameButHistory

PushIssue(a) == PushIssueWithin(a, MaxTime)

\* The consistency window: the call goes on only within the push budget.
PushWindow(a) ==
  /\ a_pc[a] = "push_window"
  /\ ~WindowBlocked(push_pool, a_time[a], max_push_delay)
  /\ a_pc' = [a_pc EXCEPT ![a] = "push_send"]
  /\ UNCHANGED <<cur_time, issued, max_push_delay, max_pull_delay, push_pool,
                 pull_pool, pull_aggregator, outbox, sent, a_time, a_ret>>
  /\ UNCHANGED a_arg
  /\ AppFrame

\* the transport takes the envelope: the call returns its time
PushSendOk(a) ==
  /\ a_pc[a] = "push_send"
  /\ outbox' = outbox \cup {[type |-> {PUSH}, time |-> a_time[a]]}
  /\ sent' = sent \cup {a_time[a]}
  /\ a_pc' = [a_pc EXCEPT ![a] = "idle"]
  /\ a_ret' = [a_ret EXCEPT ![a] = "ok"]
  /\ UNCHANGED <<cur_time, issued, max_push_delay, max_pull_delay, push_pool,
                 pull_pool, pull_aggregator, a_time>>
  /\ UNCHANGED a_arg
  /\ AppFrame

\* what a failed send leaves of the request's registration
UnregisterKeeps(pool, t) == pool
Unregister(pool, t) == PoolRemove(pool, t)

\* the transport fails to enqueue the envelope (SendError): the request's
\* registration is withdrawn and the call returns a failed result
PushSendFail(a) ==
  /\ a_pc[a] = "push_send"
  /\ push_pool' = Unregister(push_pool, a_time[a])
  /\ pull_pool' = Unregister(pull_pool, a_time[a])
  /\ pull_aggregator' = AggDelete(pull_aggregator, a_time[a])
  /\ a_pc' = [a_pc EXCEPT ![a] = "idle"]
  /\ a_ret' = [a_ret EXCEPT ![a] = "SendError"]
  /\ UNCHANGED <<cur_time, issued, max_push_delay, max_pull_delay, outbox,
                 sent, a_time>>
  /\ UNCHANGED a_arg
  /\ issue_group' = [issue_group EXCEPT ![a_time[a]] = {}]
  /\ AppFrameButHistory

\* ----------------------------------------------------------------- Pull
PullIssueWithin(a, bound) ==
  /\ a_pc[a] = "idle"
  /\ cur_time < bound
  /\ cur_time' = ClockAfterIncr(cur_time)
  /\ issued' = Append(issued, cur_time')
  /\ a_time' = [a_time EXCEPT ![a] = cur_time']
  /\ a_ret' = [a_ret EXCEPT ![a] = "none"]
  /\ pull_pool' = PoolCreate(pull_pool, cur_time')
  /\ pull_aggregator' = AggCreate(pull_aggregator, cur_time')
  /\ a_pc' = [a_pc EXCEPT ![a] = "pull_window"]
  /\ UNCHANGED <<max_push_delay, max_pull_delay, push_pool, outbox, sent>>
  /\ a_arg' = [a_arg EXCEPT ![a] = NoArg]
  /\ issue_group' = [issue_group EXCEPT ![cur_time'] = node_group]
  /\ AppFrameButHistory

PullIssue(a) == PullIssueWithin(a, MaxTime)

PullWindow(a) ==
  /\ a_pc[a] = "pull_window"
  /\ ~WindowBlocked(pull_pool, a_time[a], max_pull_delay)
  /\ a_pc' = [a_pc EXCEPT ![a] = "pull_send"]
  /\ UNCHANGED <<cur_time, issued, max_push_delay, max_pull_delay, push_pool,
                 pull_pool, pull_aggregator, outbox, sent, a_time, a_ret>>
  /\ UNCHANGED a_arg
  /\ AppFrame

PullSendOk(a) ==
  /\ a_pc[a] = "pull_send"
  /\ outbox' = outbox \cup {[type |-> {PULL}, time |-> a_time[a]]}
  /\ sent' = sent \cup {a_time[a]}
  /\ a_pc' = [a_pc EXCEPT ![a] = "idle"]
  /\ a_ret' = [a_ret EXCEPT ![a] = "ok"]
  /\ UNCHANGED <<cur_time, issued, max_push_delay, max_pull_delay, push_pool,
                 pull_pool, pull_aggregator, a_time>>
  /\ UNCHANGED a_arg
  /\ AppFrame

PullSendFail(a) ==
  /\ a_pc[a] = "pull_send"
  /\ pull_pool' = Unregister(pull_pool, a_time[a])
  /\ pull_aggregator' = AggDelete(pull_aggregator, a_time[a])
  /\ a_pc' = [a_pc EXCEPT ![a] = "idle"]
  /\ a_ret' = [a_ret EXCEPT ![a] = "SendError"]
  /\ UNCHANGED <<cur_time, issued, max_push_delay, max_pull_delay, push_pool,
                 outbox, sent, a_time>>
  /\ UNCHANGED a_arg
  /\ issue_group' = [issue_group EXCEPT ![a_time[a]] = {}]
  /\ AppFrameButHistory

\* ----------------------------------------------------------------- Wait
WaitInputs == {kCurTime} \cup Times

\* void Wait(int time = kCurTime): a time never issued is an error;
\* otherwise the caller blocks until WaitDone.
WaitCall(a, t) ==
  /\ a_pc[a] = "idle"
  /\ a_time' = [a_time EXCEPT ![a] = WaitTarget(t)]
  /\ IF t # kCurTime /\ NeverIssued(t)
     THEN /\ a_ret' = [a_ret EXCEPT ![a] = "UnknownTimeError"]
          /\ a_pc' = a_pc
     ELSE /\ a_ret' = [a_ret EXCEPT ![a] = "none"]
          /\ a_pc' = [a_pc EXCEPT ![a] = "waiting"]
  /\ UNCHANGED <<cur_time, issued, max_push_delay, max_pull_delay, push_pool,
                 pull_pool, pull_aggregator, outbox, sent>>
  /\ a_arg' = [a_arg EXCEPT ![a] = t]
  /\ AppFrame

\* Once the requests up to the time have succeeded the call returns.  The
WaitReturn(a) ==
  /\ a_pc[a] = "waiting"
  /\ WaitDone(a_time[a])
  /\ a_pc' = [a_pc EXCEPT ![a] = "idle"]
  /\ a_ret' = [a_ret EXCEPT ![a] = "waited"]
  /\ UNCHANGED <<cur_time, issued, max_push_delay, max_pull_delay, push_pool,
                 pull_pool, pull_aggregator, outbox, sent, a_time>>
  /\ UNCHANGED <<a_arg, issue_group>>
  /\ AppFrameButHistory

\* --------------------------------------------------------------- Accept
\* virtual void Accept(const Mail& mail), run by the postoffice threads.
\* Each call on a shared object (the queue, the aggregator, the pool) is one
\* step; the calls of two threads interleave.

\* The reply a server sends for the request issued at t carries t and REPLY
\* with the request's type.
ReplyType(t) == IF push_pool[t] # "absent" THEN {PUSH, REPLY} ELSE {PULL, REPLY}

\* Replies reach a worker for requests the transport took, any number of
\* times and in any order ...
SentReplyMails ==
  {[type |-> ReplyType(t), time |-> t, sender |-> n] : t \in sent, n \in Nodes}
\* ... and for a time this container never issued (the clock starts at 0, so
\* IncrClock never returns 0).
StrayReplyMails ==
  {[type |-> {PULL, REPLY}, time |-> 0, sender |-> n] : n \in {"s1"}}
ReplyMails == SentReplyMails \cup StrayReplyMails

Workers == {"w1"}
\* Fresh requests reach a server from the workers; a request carries the
\* times of the requests it depends on (SyncOpts::deps), any list of times:
\* none, or another time, earlier or later than its own.
DepsInputs(t) == {{}} \cup {{u} : u \in {1, MaxTime} \ {t}}
RequestMails ==
  UNION {{[type |-> {k}, time |-> t, sender |-> w, deps |-> ds] :
            k \in {PUSH, PULL}, w \in Workers, ds \in DepsInputs(t)} :
         t \in 1..MaxTime}

InMails == IF is_server THEN RequestMails ELSE ReplyMails

\* if (my_node().is_server()) ReadAll();
AcceptTailNoReadAll == "idle"
AcceptTail == IF is_server THEN "readall" ELSE "idle"

Error(kind, pool, t) == [kind |-> kind, pool |-> pool, time |-> t]

\* WaitInited(); mails_received_.Put(mail);
\* if (mail.flag().type() & Header::REPLY) ...
AcceptPut(d, mail) ==
  /\ d_pc[d] = "idle"
  /\ Len(mails_received) < MaxMails
  /\ mails_received' = Append(mails_received, mail)
  /\ d_mail' = [d_mail EXCEPT ![d] = IF REPLY \in mail.type THEN mail ELSE NoMail]
  /\ d_pc' = [d_pc EXCEPT ![d] = IF REPLY \in mail.type THEN "insert" ELSE AcceptTail]
  /\ UNCHANGED <<push_pool, pull_pool, pull_aggregator, outbox, replies, errors>>
  /\ DeliveryFrame

\* pull_aggregator_.Insert(mail);
AcceptInsert(d) ==
  /\ d_pc[d] = "insert"
  /\ pull_aggregator' = AggInsert(pull_aggregator, d_mail[d])
  /\ d_pc' = [d_pc EXCEPT ![d] = "success"]
  /\ UNCHANGED <<push_pool, pull_pool, mails_received, outbox, replies, errors, d_mail>>
  /\ DeliveryFrame

\* if (pull_aggregator_.Success(time, postmaster_->GetNodeGroup(name())))
\*   { pull_pool_.Set(time, true); pull_aggregator_.Delete(time); }
AfterSuccessAlwaysSet(ok) == "set"
AfterSuccess(ok) == IF ok THEN "set" ELSE AcceptTail

AcceptSuccess(d) ==
  /\ d_pc[d] = "success"
  /\ d_pc' = [d_pc EXCEPT ![d] =
                AfterSuccess(AggSuccess(pull_aggregator, d_mail[d].time, node_group))]
  /\ d_mail' = [d_mail EXCEPT ![d] = IF d_pc'[d] = "set" THEN d_mail[d] ELSE NoMail]
  /\ UNCHANGED <<push_pool, pull_pool, pull_aggregator, mails_received,
                 outbox, replies, errors>>
  /\ DeliveryFrame

\* pull_pool_.Set(time, true);
AcceptSet(d) ==
  /\ d_pc[d] = "set"
  /\ pull_pool' = PoolSet(pull_pool, d_mail[d].time)
  /\ errors' = IF PoolSetFails(pull_pool, d_mail[d].time)
               THEN errors \cup {Error("UnknownTimeError", "pull", d_mail[d].time)}
               ELSE errors
  /\ d_pc' = [d_pc EXCEPT ![d] = "delete"]
  /\ UNCHANGED <<push_pool, pull_aggregator, mails_received, outbox, replies, d_mail>>
  /\ DeliveryFrame

\* pull_aggregator_.Delete(time);
AcceptDelete(d) ==
  /\ d_pc[d] = "delete"
  /\ pull_aggregator' = AggDelete(pull_aggregator, d_mail[d].time)
  /\ d_pc' = [d_pc EXCEPT ![d] = AcceptTail]
  /\ d_mail' = [d_mail EXCEPT ![d] = NoMail]
  /\ UNCHANGED <<push_pool, pull_pool, mails_received, outbox, replies, errors>>
  /\ DeliveryFrame

\* ReadAll: "process all mails in the receiving queue".  Each fresh PUSH or
\* PULL is given to the handle, in the order of the queue, and answered
\* (Reply) with one REPLY envelope of the same time to its sender; a reply
\* in the queue is consumed.  SyncOpts::deps is not looked at.
ReplyTo(m) == [type |-> m.type \cup {REPLY}, time |-> m.time, to |-> m.sender]

\* the mails of the queue that are handled, in the order of the queue
Drain(queue) == SelectSeq(queue, LAMBDA m : REPLY \notin m.type)

AcceptReadAll(d) ==
  /\ d_pc[d] = "readall"
  /\ LET new == Drain(mails_received)
     IN /\ mails_received' = <<>>
        /\ handled' = handled \o new
        /\ replies' = replies \o [i \in 1..Len(new) |-> ReplyTo(new[i])]
        /\ outbox' = outbox \cup
             {[type |-> new[i].type \cup {REPLY}, time |-> new[i].time] :
                i \in 1..Len(new)}
  /\ d_pc' = [d_pc EXCEPT ![d] = "idle"]
  /\ UNCHANGED <<push_pool, pull_pool, pull_aggregator, errors, d_mail, invoked>>
  /\ DeliveryFrameButCalls

\* --------------------------------------------------------------- Notify
\* virtual void Notify(const Header& flag): the transport confirms that the
\* mail of an envelope it took has been sent.
\* if (flag.type() & Header::PUSH) push_pool_.Set(flag.time(), true);
NotifySetsOnPull(h) == PULL \in h.type
NotifySets(h) == PUSH \in h.type

Notify(d, h) ==
  /\ d_pc[d] = "idle"
  /\ h \in outbox
  /\ outbox' = outbox \ {h}
  /\ IF NotifySets(h)
     THEN /\ push_pool' = PoolSet(push_pool, h.time)
          /\ errors' = IF PoolSetFails(push_pool, h.time)
                       THEN errors \cup {Error("UnknownTimeError", "push", h.time)}
                       ELSE errors
     ELSE UNCHANGED <<push_pool, errors>>
  /\ UNCHANGED <<pull_pool, pull_aggregator, mails_received, replies, d_pc, d_mail>>
  /\ DeliveryFrame

\* ----------------------------------------------------------- membership
\* The node group is owned by the postmaster; Accept and AggregateSuccess
\* read it with postmaster_->GetNodeGroup(name()) at each call.  A server
\* joins or leaves the group.
GroupInputs == {{"s1"}, {"s1", "s2"}}

MembershipChange(g) ==
  /\ g # node_group
  /\ node_group' = g
  /\ UNCHANGED <<cur_time, issued, max_push_delay, max_pull_delay, push_pool,
                 pull_pool, pull_aggregator, is_server, mails_received, outbox,
                 sent, replies, errors, a_pc, a_time, a_ret, a_arg, d_pc,
                 d_mail, issue_group, invoked, handled>>
  /\ OptionsFrame

\* ----------------------------------------------------------------- Next
\* Push and Pull of one application thread, the transport taking the envelope
IssueStep(a) ==
  \/ PushIssue(a)
  \/ PushWindow(a)
  \/ PushSendOk(a)
  \/ PullIssue(a)
  \/ PullWindow(a)
  \/ PullSendOk(a)

\* Accept's steps after the mail is queued, and Notify
DeliveryStep(d) ==
  \/ AcceptInsert(d)
  \/ AcceptSuccess(d)
  \/ AcceptSet(d)
  \/ AcceptDelete(d)
  \/ \E h \in outbox : Notify(d, h)

\* Spec: one application thread issuing requests (the transport may refuse
\* an envelope), advancing the clock and waiting; one delivery thread
\* accepting replies (also duplicate and stray ones) and notifying.
Next ==
  \/ IncrClock("a1")
  \/ IssueStep("a1")
  \/ PushSendFail("a1")
  \/ PullSendFail("a1")
  \/ \E t \in WaitInputs : WaitCall("a1", t)
  \/ WaitReturn("a1")
  \/ \E m \in InMails : AcceptPut("d1", m)
  \/ DeliveryStep("d1")

Spec == Init /\ [][Next]_vars

\* SpecClock: the application threads race on the clock.
NextClock ==
  \E a \in AppThreads : IncrClock(a) \/ IssueStep(a)

SpecClock == Init /\ [][NextClock]_vars

\* SpecRace: two delivery threads run Accept and Notify concurrently for the
\* replies of a two-server group.
InitRace == Init /\ node_group = {"s1", "s2"}

NextRace ==
  \/ IssueStep("a1")
  \/ \E d \in DeliveryThreads :
       \/ \E m \in SentReplyMails : AcceptPut(d, m)
       \/ DeliveryStep(d)

SpecRace == InitRace /\ [][NextRace]_vars

\* SpecServer: a server container.  Two delivery threads accept the fresh
\* requests of a worker, in any order and possibly twice, and the
\* transport's confirmations of the replies sent; the server takes MaxMails
\* requests in all.
InitServer == NoOptions /\ InitContainer /\ is_server = TRUE

ServerAccept(d) ==
  /\ Len(handled) + Len(mails_received) < MaxMails
  /\ \E m \in RequestMails : AcceptPut(d, m)

NextServer ==
  \E d \in DeliveryThreads :
     \/ ServerAccept(d)
     \/ AcceptReadAll(d)
     \/ \E h \in outbox : Notify(d, h)

SpecServer == InitServer /\ [][NextServer]_vars

\* SpecPeer: a server that also issues pushes of its own to a group of one
\* server: one delivery thread accepts the workers' requests (issued with
\* no dependencies) and the replies to the server's pushes.
InitPeer == InitServer /\ node_group = {"s1"}

PeerAccept(d) ==
  /\ Len(handled) + Len(mails_received) < MaxMails
  /\ \E m \in RequestMails : m.deps = {} /\ AcceptPut(d, m)

NextPeer ==
  \/ PushIssue("a1")
  \/ PushWindow("a1")
  \/ PushSendOk("a1")
  \/ PeerAccept("d1")
  \/ \E m \in SentReplyMails : AcceptPut("d1", m)
  \/ AcceptInsert("d1")
  \/ AcceptSuccess("d1")
  \/ AcceptSet("d1")
  \/ AcceptDelete("d1")
  \/ AcceptReadAll("d1")

SpecPeer == InitPeer /\ [][NextPeer]_vars

\* SpecStore: the same Push requests reach the node of a KVStore constructed
\* with Type ONLINE and that of a KVStore constructed with Type BATCH; each
\* store runs.
KVPush(keys, vals) ==
  /\ Len(kv_online.reqs) < MaxMails
  /\ kv_online' = [Run(kv_online) EXCEPT
                     !.reqs = Append(@, [keys |-> keys, vals |-> vals])]
  /\ kv_batch' = [Run(kv_batch) EXCEPT
                    !.reqs = Append(@, [keys |-> keys, vals |-> vals])]
  /\ UNCHANGED <<cur_time, issued, max_push_delay, max_pull_delay, push_pool,
                 pull_pool, pull_aggregator, node_group, is_server,
                 mails_received, outbox, sent, replies, errors, a_pc, a_time,
                 a_ret, a_arg, d_pc, d_mail, issue_group, callback_of, invoked,
                 handled, lost>>

NextStore ==
  \E keys \in KeyLists :
     \E vals \in [1..Len(keys) -> PushValues] : KVPush(keys, vals)

SpecStore == InitServer /\ [][NextStore]_vars

\* SpecMember: the node group changes while requests are in flight.
NextMember ==
  \/ IssueStep("a1")
  \/ \E g \in GroupInputs : MembershipChange(g)
  \/ \E m \in SentReplyMails : AcceptPut("d1", m)
  \/ DeliveryStep("d1")

SpecMember == Init /\ [][NextMember]_vars

\* SpecLive: fair delivery.  The transport loses some replies for good
\* (lost) and delivers every other reply of a group member once; a delivery
\* thread that can take a step eventually takes one, and so does a Wait
\* that can return.  No more replies are deliverable than the receive queue
\* of the model holds.
Deliverable ==
  {<<t, n>> \in (1..MaxTime) \X node_group : <<t, n>> \notin lost}

InitLive ==
  /\ callback_of = {}
  /\ InitContainer
  /\ is_server = FALSE
  /\ lost \in SUBSET ((1..MaxTime) \X Nodes)
  /\ lost \subseteq (1..MaxTime) \X node_group
  /\ Cardinality(Deliverable) <= MaxMails

\* the reply of node n for time t has been handed to Accept
Arrived(t, n) ==
  \E i \in 1..Len(mails_received) :
     /\ REPLY \in mails_received[i].type
     /\ mails_received[i].time = t
     /\ mails_received[i].sender = n

\* the reply of node n for time t arrives
LiveDeliver(d, t, n) ==
  /\ t \in sent
  /\ <<t, n>> \in Deliverable
  /\ ~Arrived(t, n)
  /\ AcceptPut(d, [type |-> ReplyType(t), time |-> t, sender |-> n])

LiveDelivery ==
  \/ \E t \in 1..MaxTime, n \in Nodes : LiveDeliver("d1", t, n)
  \/ DeliveryStep("d1")

NextLive ==
  \/ PushIssue("a1")
  \/ PushWindow("a1")
  \/ PushSendOk("a1")
  \/ \E t \in 1..MaxTime : WaitCall("a1", t)
  \/ WaitReturn("a1")
  \/ LiveDelivery

SpecLive ==
  /\ InitLive
  /\ [][NextLive]_vars
  /\ WF_vars(LiveDelivery)
  /\ WF_vars(WaitReturn("a1"))

\* SpecWindow: an application thread sets the budgets, at any time, and
\* issues requests to a group of one server while one delivery thread
\* notifies and accepts the server's replies, each once.
InitWindow == Init /\ node_group = {"s1"}

NextWindow ==
  \/ \E p \in DelayInputs, q \in DelayInputs : SetMaxDelay("a1", p, q)
  \/ SetMaxDelayPull("a1")
  \/ \E p \in DelayInputs : SetMaxPushDelay("a1", p)
  \/ \E q \in DelayInputs : SetMaxPullDelay("a1", q)
  \/ IssueStep("a1")
  \/ \E t \in 1..MaxTime, n \in Nodes : LiveDeliver("d1", t, n)
  \/ DeliveryStep("d1")

SpecWindow == InitWindow /\ [][NextWindow]_vars

\* SpecBudget: as SpecWindow with the clock running one tick further, so
\* that a request can be two ticks older than the call at the window while
\* the request between them is acknowledged.
NextBudget ==
  \/ \E p \in DelayInputs : SetMaxPushDelay("a1", p)
  \/ \E q \in DelayInputs : SetMaxPullDelay("a1", q)
  \/ PushIssueWithin("a1", MaxTime + 1)
  \/ PushWindow("a1")
  \/ PushSendOk("a1")
  \/ PullIssueWithin("a1", MaxTime + 1)
  \/ PullWindow("a1")
  \/ PullSendOk("a1")
  \/ \E m \in SentReplyMails :
        /\ m.sender \in node_group
        /\ ~Arrived(m.time, m.sender)
        /\ AcceptPut("d1", m)
  \/ DeliveryStep("d1")

SpecBudget == InitWindow /\ [][NextBudget]_vars

\* SpecCallback: requests carrying a completion callback, two delivery
\* threads accepting the replies of a two-server group.
CallbackInputs == {{1}, {1, 2}, 1..MaxTime}

InitCallback ==
  /\ callback_of \in CallbackInputs
  /\ lost = {}
  /\ InitContainer
  /\ is_server = FALSE
  /\ node_group = {"s1", "s2"}

NextCallback ==
  \/ PullIssue("a1")
  \/ PullWindow("a1")
  \/ PullSendOk("a1")
  \/ \E d \in DeliveryThreads :
       \/ \E m \in SentReplyMails : AcceptPut(d, m)
       \/ AcceptInsert(d)
       \/ AcceptSuccess(d)
       \/ AcceptSet(d)
       \/ AcceptDelete(d)

SpecCallback == InitCallback /\ [][NextCallback]_vars

\* ================================================================ claims

\* C1: over every interleaving of Push, Pull and IncrClock calls of the
\* application threads, the times handed out are strictly increasing in issue
\* order, so no time is returned twice.
C1_TimesStrictlyIncreasing ==
  \A i \in 1..Len(issued) : \A j \in 1..Len(issued) :
     i < j => issued[i] < issued[j]

\* two threads hold different times at once, after the clock was also
\* advanced by a request that has returned
C1_Witness ==
  /\ Len(issued) >= 2
  /\ a_pc["a1"] # "idle"
  /\ a_pc["a2"] # "idle"
  /\ a_time["a1"] # a_time["a2"]

\* The nodes whose reply for time t this container has accepted: a worker's
\* receive queue keeps every mail Accept was called with.
Received(t) ==
  {mails_received[i].sender :
     i \in {j \in 1..Len(mails_received) :
              REPLY \in mails_received[j].type /\ mails_received[j].time = t}}

PullSuccess(t) == AggSuccess(pull_aggregator, t, node_group)

\* thread d inserts the reply it holds in this step
InsertStep(d) == d_pc[d] = "insert" /\ d_pc'[d] = "success"

\* C2: while a member of the group has not acknowledged t the success
\* predicate is false and the completion cell of t is not set; the predicate
\* turns true in exactly the step that inserts the reply of the last member
\* missing, whatever the order of the replies.
C2_FalseWhileAckMissing ==
  \A t \in Times :
     (PullSuccess(t) \/ pull_pool[t] = "satisfied") => node_group \subseteq Received(t)

C2_TrueAtLastAck ==
  \A t \in Times :
     /\ (~PullSuccess(t) /\ PullSuccess(t)') =>
           \E d \in DeliveryThreads :
              /\ InsertStep(d)
              /\ d_mail[d].time = t
              /\ node_group \ pull_aggregator[t].acked = {d_mail[d].sender}
     /\ \A d \in DeliveryThreads :
           ( /\ InsertStep(d)
             /\ d_mail[d].time = t
             /\ pull_aggregator[t].present
             /\ node_group \ pull_aggregator[t].acked \subseteq {d_mail[d].sender} )
           => PullSuccess(t)'

C2_SuccessOnlyWithAllAcks ==
  [](C2_FalseWhileAckMissing) /\ [][C2_TrueAtLastAck]_vars

\* the request of time 1 completed on the replies of s2 and then s1
C2_Witness ==
  /\ node_group = {"s1", "s2"}
  /\ pull_pool[1] = "satisfied"
  /\ Len(mails_received) = 2
  /\ mails_received[1].sender = "s2" /\ mails_received[1].time = 1
  /\ mails_received[2].sender = "s1" /\ mails_received[2].time = 1

\* ----------------------------------------------------------------- Wait
\* the request of time t has completed: none of its cells is pending
Completed(t) == push_pool[t] # "pending" /\ pull_pool[t] = "satisfied"

\* thread a returns from Wait in this step
WaitReturnStep(a) == a_pc[a] = "waiting" /\ a_pc'[a] = "idle"

\* a Wait(T) whose request T has completed is not blocked
C3_WaitFollowsOwnRequest ==
  \A a \in AppThreads :
     (a_pc[a] = "waiting" /\ Completed(a_time[a])) => ENABLED WaitReturn(a)

\* a Wait(T) returns only after the replies accepted for T made the success
\* predicate true (every member of the group has replied)
C3_BlockedUntilSuccess ==
  \A a \in AppThreads :
     (WaitReturnStep(a) /\ pull_pool[a_time[a]] # "absent") =>
        /\ pull_pool[a_time[a]] = "satisfied"
        /\ node_group \subseteq Received(a_time[a])

\* C3: Wait(T) called after the request of time T has completed returns
\* immediately; called before, it stays blocked until the Accept calls for T
\* have made the success predicate true, and returns once they have.
C3_WaitOnCompletedReturns ==
  [](C3_WaitFollowsOwnRequest) /\ [][C3_BlockedUntilSuccess]_vars

\* ---------------------------------------------------- consistency window
\* the times of pool that are pending and whose call is past the window
\* (the envelope is with the transport or about to be handed to it)
InWindow(t) ==
  \E a \in AppThreads : a_time[a] = t /\ a_pc[a] \in {"push_window", "pull_window"}

Outstanding(pool) == {u \in Times : pool[u] = "pending" /\ ~InWindow(u)}

\* the pending cells of pool older than t
EarlierPending(pool, t) == {u \in Times : u < t /\ pool[u] = "pending"}

\* the unanswered Pulls older than t
C4_EarlierPulls(t) == {u \in EarlierPending(pull_pool, t) : push_pool[u] = "absent"}

C4_HeldExactlyWhile ==
  \A a \in AppThreads :
     /\ a_pc[a] = "push_window" =>
          (ENABLED PushWindow(a) <=>
             \A u \in EarlierPending(push_pool, a_time[a]) :
                a_time[a] - u <= max_push_delay)
     /\ (a_pc[a] = "pull_window" /\
           \E u \in C4_EarlierPulls(a_time[a]) : a_time[a] - u > max_pull_delay)
          => ~ENABLED PullWindow(a)
     /\ (a_pc[a] = "push_window" /\ max_push_delay = kInfDelay)
          => ENABLED PushWindow(a)
     /\ (a_pc[a] = "pull_window" /\ max_pull_delay = kInfDelay)
          => ENABLED PullWindow(a)

\* thread a is held at the push window
C4_PushHeld(a) ==
  /\ a_pc[a] = "push_window"
  /\ \E u \in EarlierPending(push_pool, a_time[a]) :
        a_time[a] - u > max_push_delay

\* a call passes the window with at most N earlier requests unacknowledged
\* (N+1 epochs with its own), and a held Push is let go only by the
\* completion of an earlier push or by a change of the budget
C4_PassStep ==
  \A a \in AppThreads :
     /\ (a_pc[a] = "push_window" /\ a_pc'[a] = "push_send") =>
          Cardinality(EarlierPending(push_pool, a_time[a])) <= max_push_delay
     /\ (a_pc[a] = "pull_window" /\ a_pc'[a] = "pull_send") =>
          Cardinality(C4_EarlierPulls(a_time[a])) <= max_pull_delay
     /\ (C4_PushHeld(a) /\ ~C4_PushHeld(a)') =>
          \/ \E u \in EarlierPending(push_pool, a_time[a]) :
                push_pool'[u] = "satisfied"
          \/ max_push_delay' # max_push_delay

LateOrUnknown(t) ==
  /\ ~pull_aggregator[t].present
  /\ (pull_pool[t] = "satisfied" \/ t \notin IssuedTimes)

\* thread d takes a step of Accept
AcceptStep(d) ==
  \/ d_pc[d] = "idle" /\ d_pc'[d] = "insert"
  \/ d_pc[d] \in {"insert", "success", "set", "delete"} /\ d_pc'[d] # d_pc[d]

\* the time of the reply the step handles
StepTime(d) == IF d_pc[d] = "idle" THEN d_mail'[d].time ELSE d_mail[d].time

\* C5: no step of Accept on a reply whose time has completed or was never
\* issued raises an error, changes a cell or an aggregator entry of any time,
\* or creates pending state for the reply's time.
C5_LateReplyStep ==
  \A d \in DeliveryThreads :
     (AcceptStep(d) /\ LateOrUnknown(StepTime(d))) =>
        /\ errors' = errors
        /\ push_pool' = push_pool
        /\ pull_pool' = pull_pool
        /\ pull_aggregator' = pull_aggregator

C5_LateReplyDropped == [][C5_LateReplyStep]_vars

\* the reply of s1 for time 1 arrived twice, the second after the request
\* had completed, while the request of time 2 is pending
C5_Witness ==
  /\ node_group = {"s1"}
  /\ Len(mails_received) = 2
  /\ mails_received[1] = mails_received[2]
  /\ mails_received[1].time = 1
  /\ d_pc["d1"] = "idle"
  /\ pull_pool[1] = "satisfied"
  /\ pull_pool[2] = "pending"
  /\ pull_aggregator[2].present

\* ------------------------------------------------------ completion cells
\* C6: a satisfied cell of either pool stays satisfied in every step, so each
\* cell goes from pending to satisfied at most once, also when two delivery
\* threads call Set for the same time and when Notify and Accept act on it.
C6_SatisfiedStays ==
  \A t \in Times :
     /\ push_pool[t] = "satisfied" => push_pool'[t] = "satisfied"
     /\ pull_pool[t] = "satisfied" => pull_pool'[t] = "satisfied"

C6_SatisfiedAtMostOnce == [][C6_SatisfiedStays]_vars

\* both delivery threads have called Set for time 1 (the second call found
\* the cell satisfied), and Notify has set the push cell of time 1
C6_Witness ==
  /\ d_pc["d1"] = "delete" /\ d_mail["d1"].time = 1
  /\ d_pc["d2"] = "delete" /\ d_mail["d2"].time = 1
  /\ pull_pool[1] = "satisfied"
  /\ push_pool[1] = "satisfied"

\* ------------------------------------------------- Wait on an unknown time
\* C7: a Wait whose argument is a time the clock never handed out has ended
\* with UnknownTimeError: the thread is neither blocked in it nor back from
\* it as from a completed request.
C7_UnknownTimeIsAnError ==
  \A a \in AppThreads :
     (a_arg[a] # NoArg /\ a_arg[a] # kCurTime /\ a_arg[a] \notin IssuedTimes) =>
        (a_pc[a] = "idle" /\ a_ret[a] = "UnknownTimeError")

\* Wait(2) failed while the clock was at 1 and the request of time 1 pending
C7_Witness ==
  /\ cur_time = 1
  /\ a_arg["a1"] = 2
  /\ a_ret["a1"] = "UnknownTimeError"
  /\ a_pc["a1"] = "idle"
  /\ pull_pool[1] = "pending"

\* ------------------------------------------------------------ SendError
\* a thread is between the registration and the return of the request t
InProgress(t) ==
  \E a \in AppThreads :
     a_time[a] = t /\ a_pc[a] \in {"push_window", "push_send", "pull_window", "pull_send"}

\* C8: after a Push or Pull returned a failed result because the transport
\* refused the envelope, no pool and no aggregator holds an entry for its
\* time; every pending entry belongs to a request that was sent or is being
\* issued.
C8_NoEntryAfterSendError ==
  /\ \A a \in AppThreads :
        (a_pc[a] = "idle" /\ a_ret[a] = "SendError") =>
           /\ push_pool[a_time[a]] = "absent"
           /\ pull_pool[a_time[a]] = "absent"
           /\ ~pull_aggregator[a_time[a]].present
  /\ \A t \in Times :
        (push_pool[t] = "pending" \/ pull_pool[t] = "pending" \/ pull_aggregator[t].present)
           => (t \in sent \/ InProgress(t))

\* the Push of time 2 failed to send while the request of time 1 is pending
C8_Witness ==
  /\ a_pc["a1"] = "idle"
  /\ a_ret["a1"] = "SendError"
  /\ a_time["a1"] = 2
  /\ 2 \notin sent
  /\ pull_pool[1] = "pending"
  /\ push_pool[1] = "pending"

\* ---------------------------------------------------------- non-blocking
\* thread a returns from Push or Pull with its time in this step
IssueReturnStep(a) ==
  a_pc[a] \in {"push_send", "pull_send"} /\ a_pc'[a] = "idle" /\ a_ret'[a] = "ok"

\* a Push or Pull is never held back, whatever the state of the earlier
\* requests, and the transport can take its envelope
C9_NeverBlocks ==
  \A a \in AppThreads :
     /\ a_pc[a] = "push_window" => ENABLED PushWindow(a)
     /\ a_pc[a] = "pull_window" => ENABLED PullWindow(a)
     /\ a_pc[a] = "push_send" => ENABLED PushSendOk(a)
     /\ a_pc[a] = "pull_send" => ENABLED PullSendOk(a)

\* the call returns while its own request is still unanswered
C9_ReturnsBeforeReply ==
  \A a \in AppThreads :
     IssueReturnStep(a) =>
        /\ pull_pool'[a_time[a]] = "pending"
        /\ Received(a_time[a]) = {}

\* C9: Push and Pull are non-blocking: each call returns its time as soon as
\* the message is queued for sending, without waiting for a reply or for the
\* completion of an earlier request.
C9_NonBlocking ==
  [](C9_NeverBlocks) /\ [][C9_ReturnsBeforeReply]_vars

\* ------------------------------------------------------ Wait up to a time
\* C10: Wait(t) returns only once every request sent with a time <= t has
\* succeeded (its cells are set, every member of the group has replied);
\* called with the default argument its time is the current clock value.
C10_AllUpToTimeStep ==
  \A a \in AppThreads :
     WaitReturnStep(a) =>
        \A u \in sent :
           u <= a_time[a] =>
              /\ pull_pool[u] = "satisfied"
              /\ push_pool[u] \in {"absent", "satisfied"}
              /\ node_group \subseteq Received(u)

C10_DefaultIsClock ==
  \A a \in AppThreads :
     (a_arg[a] = kCurTime /\ (a_pc[a] = "waiting" \/ a_ret[a] = "waited"))
        => a_time[a] = cur_time

C10_WaitCoversAllUpToTime ==
  [](C10_DefaultIsClock) /\ [][C10_AllUpToTimeStep]_vars

\* Wait() has returned after the push of time 1 and the pull of time 2 both
\* succeeded
C10_Witness ==
  /\ a_arg["a1"] = kCurTime
  /\ a_ret["a1"] = "waited"
  /\ a_time["a1"] = 2
  /\ sent = {1, 2}
  /\ push_pool[1] = "satisfied"
  /\ pull_pool[1] = "satisfied" /\ pull_pool[2] = "satisfied"

\* ------------------------------------------------------ completion callback
\* the pending request of t has been released after its completion
Released(t) == pull_pool[t] = "satisfied" /\ ~pull_aggregator[t].present
\* a delivery thread is inside Accept with a reply for t
C11_Accepting(t) ==
  \E d \in DeliveryThreads : d_pc[d] # "idle" /\ d_mail[d].time = t

\* C11: the callback of a request is invoked exactly once, whatever the order
\* of the replies and the interleaving of the delivery threads: never before
\* every member of the group has replied and the cell is set, never twice,
\* and once the request is released and the accepting threads are back from
\* Accept it has been invoked; a request without a callback invokes nothing.
C11_CallbackExactlyOnce ==
  \A t \in Times :
     /\ invoked[t] <= 1
     /\ invoked[t] >= 1 =>
           /\ t \in callback_of
           /\ pull_pool[t] = "satisfied"
           /\ node_group \subseteq Received(t)
     /\ (t \in callback_of /\ Released(t) /\ ~C11_Accepting(t)) => invoked[t] = 1

\* ------------------------------------------------------------ dependencies
\* C12: on a server, every request given to the handle comes after the
\* requests of its sender whose times are in its deps, whatever the order in
\* which the envelopes were delivered and whichever thread accepted them.
C12_DepsProcessedFirst ==
  \A i \in 1..Len(handled) :
     \A u \in handled[i].deps :
        \E j \in 1..(i - 1) :
           handled[j].sender = handled[i].sender /\ handled[j].time = u

\* --------------------------------------------------------- ONLINE and BATCH
\* the number of keys in a sequence of requests
RECURSIVE C14_NKeys(_)
C14_NKeys(reqs) == IF reqs = <<>> THEN 0 ELSE Len(Head(reqs).keys) + C14_NKeys(Tail(reqs))

\* C14: for the same Push requests, the ONLINE store has invoked the handle
\* once for every key received and the BATCH store once for every request,
\* and after each request the two stores hold the same key/value state.
C14_OnlineAndBatchAgree ==
  /\ kv_online.reqs = kv_batch.reqs
  /\ kv_online.calls = C14_NKeys(kv_online.reqs)
  /\ kv_batch.calls = Len(kv_batch.reqs)
  /\ kv_online.vals = kv_batch.vals

\* ------------------------------------------------- release of the entry
\* thread d calls Delete for the time of the reply it holds in this step
DeleteStep(d) == d_pc[d] = "delete" /\ d_pc'[d] # "delete"

\* the threads between their Success call and their Delete call for time t
Releasing(t) ==
  {d \in DeliveryThreads :
     d_pc[d] \in {"success", "set", "delete"} /\ d_mail[d].time = t}

\* C15: while success(T) holds a thread is on its way to delete the entry
\* of T; Delete is called for T only while success(T) is true, by one thread
\* only, and it removes the entry; this with several delivery threads
\* running Accept for replies of the same T.
C15_DeleteWhileSuccess ==
  \A d \in DeliveryThreads :
     DeleteStep(d) =>
        /\ PullSuccess(d_mail[d].time)
        /\ ~pull_aggregator'[d_mail[d].time].present
        /\ \A e \in DeliveryThreads \ {d} :
              ~(d_pc[e] \in {"set", "delete"} /\ d_mail[e].time = d_mail[d].time)

C15_DeletedExactlyOnce ==
  [](\A t \in Times : PullSuccess(t) => Releasing(t) # {})
    /\ [][C15_DeleteWhileSuccess]_vars

\* --------------------------------------------------------------- membership
\* C16: the acknowledgements a request of time T needs are those of the
\* node group at the moment T was issued: while T is pending, success(T)
\* holds exactly when every member of that group has acknowledged, and T
\* completes only with all their replies accepted, whatever changes of the
\* membership happen in between.
C16_GroupAtIssueDecides ==
  \A t \in Times :
     /\ pull_aggregator[t].present =>
           (PullSuccess(t) <=> issue_group[t] \subseteq pull_aggregator[t].acked)
     /\ pull_pool[t] = "satisfied" => issue_group[t] \subseteq Received(t)

\* ------------------------------------------------------------------- Notify
\* a delivery thread runs Notify in this step: only Notify takes a header
\* out of the transport's hands
NotifyStep == outbox' # outbox /\ outbox' \subseteq outbox
\* the header Notify is called with
Notified == CHOOSE h \in outbox : h \notin outbox'

\* C17: Notify with a header whose type contains PUSH sets the push cell of
\* the header's time, whether or not any node has replied for that time,
\* and touches nothing else; Notify with a header without PUSH leaves both
\* pools, the aggregator, the clock and the errors as they are.
C17_NotifyStep ==
  NotifyStep =>
    /\ pull_pool' = pull_pool
    /\ pull_aggregator' = pull_aggregator
    /\ cur_time' = cur_time
    /\ \A t \in Times : t # Notified.time => push_pool'[t] = push_pool[t]
    /\ IF PUSH \in Notified.type
       THEN push_pool[Notified.time] # "absent" =>
               push_pool'[Notified.time] = "satisfied"
       ELSE push_pool' = push_pool /\ errors' = errors

C17_NotifyFrame == [][C17_NotifyStep]_vars

\* Notify has set the push cell of time 1 with no reply accepted, and the
\* header of the Pull of time 2 has been notified too
C17_Witness ==
  /\ push_pool[1] = "satisfied"
  /\ pull_pool[1] = "pending"
  /\ mails_received = <<>>
  /\ 2 \in sent
  /\ push_pool[2] = "absent"
  /\ pull_pool[2] = "pending"
  /\ outbox = {}

\* ------------------------------------------------------- requests and replies
\* the fresh requests in the receive queue, in queue order
QueuedFresh == SelectSeq(mails_received, LAMBDA m : REPLY \notin m.type)
\* ReadAll holds no request back: each of them is ready to be processed
QueuedReady == 1..Len(QueuedFresh)
\* thread d accepts a fresh request / a reply in this step
AcceptsFresh(d) == d_pc[d] = "idle" /\ d_pc'[d] = "readall"
AcceptsReply(d) == d_pc[d] = "idle" /\ d_pc'[d] = "insert"

\* C18, in every state: each request given to the handle has been answered
\* with one REPLY envelope of its type and time to its sender, in the order
\* of processing; no reply was given to the handle or answered; a request
\* waiting in the queue with nothing to wait for has a thread on its way to
\* ReadAll.
C18_OneReplyEach ==
  /\ Len(replies) = Len(handled)
  /\ \A i \in 1..Len(handled) :
        /\ REPLY \notin handled[i].type
        /\ replies[i].type = handled[i].type \cup {REPLY}
        /\ replies[i].time = handled[i].time
        /\ replies[i].to = handled[i].sender
  /\ QueuedReady # {} => \E d \in DeliveryThreads : d_pc[d] # "idle"

\* C18, in every step: an accepted fresh request is buffered; no request is
\* lost or processed twice (the requests processed and those queued grow by
\* one exactly when a fresh request is accepted); a step that accepts a
\* reply hands it to the aggregator and emits no reply.
C18_AcceptRoutes ==
  /\ \A d \in DeliveryThreads :
        /\ AcceptsFresh(d) =>
              /\ Len(mails_received') = Len(mails_received) + 1
              /\ REPLY \notin mails_received'[Len(mails_received')].type
              /\ handled' = handled
        /\ AcceptsReply(d) =>
              /\ REPLY \in d_mail'[d].type
              /\ replies' = replies /\ handled' = handled
  /\ Len(handled') + Len(QueuedFresh') =
       Len(handled) + Len(QueuedFresh) +
         (IF \E d \in DeliveryThreads : AcceptsFresh(d) THEN 1 ELSE 0)
  /\ \A i \in 1..Len(handled) : handled'[i] = handled[i]

C18_ServerAnswersRequests == [](C18_OneReplyEach) /\ [][C18_AcceptRoutes]_vars

\* the server has answered a PUSH and a PULL request of the worker, and the
\* reply to its own push of time 1 completed that push without being
\* answered
C18_Witness ==
  /\ Len(replies) = 2
  /\ replies[1].type = {PUSH, REPLY} /\ replies[2].type = {PULL, REPLY}
  /\ pull_pool[1] = "satisfied"
  /\ mails_received = <<>>
  /\ d_pc["d1"] = "idle"

\* ----------------------------------------------------------------- liveness
\* every member of the group replies to the request of time t
AllReply(t) == \A n \in node_group : <<t, n>> \notin lost

\* a request is completed for good, and one with a member that never
\* replies is never completed (no timeout, retry or cancellation sets it)
C19_NoOtherCompletion ==
  \A t \in 1..MaxTime : (pull_pool[t] = "satisfied") => AllReply(t)
C19_CompletedStays ==
  \A t \in 1..MaxTime : Completed(t) => Completed(t)'

\* C19: under fair delivery a sent request that every member
\* replies to is eventually completed, and a Wait on its time eventually
\* returns; a request with a member that never replies is never completed;
\* a completed request stays completed.
C19_WaitOnItsTimeReturns ==
  /\ \A t \in 1..MaxTime : (t \in sent /\ AllReply(t)) ~> Completed(t)
  /\ \A t \in 1..MaxTime :
        (a_pc["a1"] = "waiting" /\ a_time["a1"] = t /\ t \in sent /\ AllReply(t))
           ~> (a_pc["a1"] = "idle")
  /\ [](C19_NoOtherCompletion)
  /\ [][C19_CompletedStays]_vars

\* ------------------------------------------------------- cells that are set
\* thread d calls pull_pool_.Set in this step
SetStep(d) == d_pc[d] = "set" /\ d_pc'[d] # "set"

\* a cell of the pool was created for t by a Push or Pull of this container
\* and is still pending
PendingCell(pool, t) == t \in IssuedTimes /\ pool[t] = "pending"

\* C20: whenever Accept or Notify sets a cell for a time, a cell of that
\* pool was created for the time by a Push or Pull of this container and is
\* still pending: Accept sets the pull cell of the reply's time, Notify the
\* push cell of the time of a header carrying PUSH, also of the header of an
\* outbound reply of a server.
C20_SetStep ==
  /\ \A d \in DeliveryThreads :
        SetStep(d) => PendingCell(pull_pool, d_mail[d].time)
  /\ (NotifyStep /\ PUSH \in Notified.type) =>
        PendingCell(push_pool, Notified.time)
C20_SetsOnlyPendingCells == [][C20_SetStep]_vars
====
